---- MODULE Spec2Model ----
(***************************************************************************)
(* Model of smart_weather.py: a Streamlit dashboard that reads three       *)
(* SQLite stores (current, forecast, meteostat) through four functions     *)
(* memoised by st.cache_data(ttl=3600), lets the user pick two cities and  *)
(* renders four tabs.  One rerun of the script is one pass of main().      *)
(***************************************************************************)
EXTENDS Integers, Sequences, FiniteSets, TLC

(***************************************************************************)
(* Bounds of the model.                                                    *)
(***************************************************************************)
MaxRegistryRows == 2    \* rows per table in the registry scenarios
MaxCurrentRows == 2     \* rows of the current table in the current scenarios
MaxHistRows == 2        \* rows of the meteostat table in the history scenarios
MaxStamp == 2           \* created_at / datetime / date values are 1..MaxStamp
MaxTicks == 3           \* the clock advances at most this many times
ClockStep == 1800       \* seconds the clock advances per tick
MaxWrites == 1          \* writes of the external ingestion pipeline

(***************************************************************************)
(* Program constants.                                                      *)
(***************************************************************************)
TTL == 3600             \* @st.cache_data(ttl=3600)

None == "None"          \* SQL NULL in a city column (Python None)
NaT == 0                \* pd.to_datetime of a NULL created_at

DB_CURRENT == "current"
DB_FORECAST == "forecast"
DB_METEOSTAT == "meteostat"
Sources == {DB_CURRENT, DB_FORECAST, DB_METEOSTAT}

\* The four functions decorated with st.cache_data.
CachedFunctions ==
    {"get_available_cities", "load_current_weather", "load_forecast_data",
     "load_meteostat_data"}

FallbackCities == <<"Nairobi", "Sydney", "New York", "London">>

\* Python compares str by code point: "London" < "Nairobi" < "New York" < "Sydney".
CodePointRank ==
    [c \in {"London", "Nairobi", "New York", "Sydney"} |->
        CASE c = "London" -> 1
          [] c = "Nairobi" -> 2
          [] c = "New York" -> 3
          [] c = "Sydney" -> 4]

StrLess(a, b) == CodePointRank[a] < CodePointRank[b]

(***************************************************************************)
(* Input domains: the rows the external ingestion pipeline may have put    *)
(* into the three tables.                                                  *)
(***************************************************************************)
CityNames == {"London", "Nairobi"}

\* Readings of the current table: the worked example of the radar scaling
\* and one reading whose scaled values leave the [0,100] window both ways.
Readings ==
    { [temp_c |-> 20, humidity |-> 50, wind_kph |-> 10, precip_mm |-> 2, aqi |-> 50],
      [temp_c |-> -5, humidity |-> 90, wind_kph |-> 55, precip_mm |-> 12, aqi |-> 150] }

CurrentRow(c, t, r) ==
    [city |-> c, created_at |-> t, temp_c |-> r.temp_c, humidity |-> r.humidity,
     wind_kph |-> r.wind_kph, precip_mm |-> r.precip_mm, aqi |-> r.aqi]

ForecastRow(c, t) ==
    [city |-> c, datetime |-> t, temp_c |-> 20, precip_mm |-> 2, humidity |-> 50]

HistValues ==
    { [temperature |-> 10, precipitation |-> 0, humidity |-> 40, wind_speed |-> 5],
      [temperature |-> -4, precipitation |-> 7, humidity |-> 75, wind_speed |-> 12] }

HistRow(d, c, v) ==
    [date |-> d, city |-> c, temperature |-> v.temperature,
     precipitation |-> v.precipitation, humidity |-> v.humidity,
     wind_speed |-> v.wind_speed]

SeqsUpTo(S, n) == UNION {[1..k -> S] : k \in 0..n}

OkStore(rows) == [status |-> "ok", rows |-> rows]
\* A store that cannot be read: the file is absent, is not a database (or is
\* not accessible), or is a database without the table.
FailedStores ==
    {[status |-> st, rows |-> <<>>] : st \in {"missing", "unreadable", "empty_file"}}

DefaultReading == CHOOSE r \in Readings : r.temp_c = 20
DefaultHist == CHOOSE v \in HistValues : v.temperature = 10

\* Registry scenarios: every store missing, unreadable, empty or populated,
\* rows with a NULL city included.
RegistryCurrent ==
    FailedStores \cup
    {OkStore(rows) : rows \in SeqsUpTo(
        {CurrentRow(c, 1, DefaultReading) : c \in CityNames \cup {None}}, MaxRegistryRows)}
RegistryForecast ==
    FailedStores \cup
    {OkStore(rows) : rows \in SeqsUpTo(
        {ForecastRow(c, 1) : c \in CityNames \cup {None}}, MaxRegistryRows)}
RegistryMeteostat ==
    FailedStores \cup
    {OkStore(rows) : rows \in SeqsUpTo(
        {HistRow(1, c, DefaultHist) : c \in CityNames \cup {None}}, MaxRegistryRows)}

BothCitiesCurrent ==
    OkStore(<<CurrentRow("London", 1, DefaultReading),
              CurrentRow("Nairobi", 1, DefaultReading)>>)
BothCitiesForecast == OkStore(<<ForecastRow("London", 1), ForecastRow("Nairobi", 1)>>)
BothCitiesMeteostat ==
    OkStore(<<HistRow(1, "London", DefaultHist), HistRow(1, "Nairobi", DefaultHist)>>)

\* Current scenarios: any small current table, created_at NULL included.
CurrentTables ==
    {OkStore(rows) : rows \in SeqsUpTo(
        {CurrentRow(c, t, r) : c \in CityNames, t \in 0..MaxStamp, r \in Readings},
        MaxCurrentRows)}

\* History scenarios: any small meteostat table (duplicate dates included),
\* and the table of the end-to-end scenario: temperatures 10, 20, 30 for one
\* city and 15, 25, 35 for the other.
ScenarioHist ==
    OkStore(<<
        [date |-> 1, city |-> "London", temperature |-> 10, precipitation |-> 1,
         humidity |-> 40, wind_speed |-> 5],
        [date |-> 1, city |-> "Nairobi", temperature |-> 15, precipitation |-> 0,
         humidity |-> 60, wind_speed |-> 8],
        [date |-> 2, city |-> "London", temperature |-> 20, precipitation |-> 2,
         humidity |-> 50, wind_speed |-> 6],
        [date |-> 2, city |-> "Nairobi", temperature |-> 25, precipitation |-> 4,
         humidity |-> 70, wind_speed |-> 9],
        [date |-> 3, city |-> "London", temperature |-> 30, precipitation |-> 3,
         humidity |-> 60, wind_speed |-> 7],
        [date |-> 3, city |-> "Nairobi", temperature |-> 35, precipitation |-> 0,
         humidity |-> 80, wind_speed |-> 13]>>)
HistTables ==
    {ScenarioHist} \cup
    {OkStore(rows) : rows \in SeqsUpTo(
        {HistRow(d, c, v) : d \in 1..MaxStamp, c \in CityNames, v \in HistValues},
        MaxHistRows)}
ForecastTables ==
    {OkStore(rows) : rows \in SeqsUpTo(
        {ForecastRow(c, t) : c \in CityNames, t \in 1..MaxStamp}, 2)}

MakeDb(c, f, m) ==
    [s \in Sources |->
        CASE s = DB_CURRENT -> c [] s = DB_FORECAST -> f [] s = DB_METEOSTAT -> m]

RegistryDbs ==
    {MakeDb(c, f, m) : c \in RegistryCurrent, f \in RegistryForecast,
                       m \in RegistryMeteostat}
CurrentDbs == {MakeDb(c, BothCitiesForecast, BothCitiesMeteostat) : c \in CurrentTables}
\* Any small meteostat table beside a forecast for both cities or for one, and
\* any small forecast table beside a meteostat table for both cities.
HistoryDbs ==
    {MakeDb(BothCitiesCurrent, f, m) :
        f \in {BothCitiesForecast, OkStore(<<ForecastRow("London", 1)>>)},
        m \in HistTables}
    \cup {MakeDb(BothCitiesCurrent, f, BothCitiesMeteostat) : f \in ForecastTables}

(***************************************************************************)
(* Helpers on sequences.                                                   *)
(***************************************************************************)
Range(s) == {s[i] : i \in DOMAIN s}

RECURSIVE SelectRows(_, _)
\* df[df['city'] == city]: the rows of that city, in the frame's order.  A
\* comparison with None (a NULL city) is False for every row.
SelectRows(df, city) ==
    IF df = <<>> THEN <<>>
    ELSE LET rest == SelectRows(Tail(df), city)
         IN  IF Head(df).city = city /\ city # None THEN <<Head(df)>> \o rest ELSE rest

RECURSIVE InsertByKey(_, _, _)
\* Stable insertion of row before the first element with a larger key column.
InsertByKey(acc, row, key) ==
    IF acc = <<>> THEN <<row>>
    ELSE IF row[key] < Head(acc)[key] THEN <<row>> \o acc
    ELSE <<Head(acc)>> \o InsertByKey(Tail(acc), row, key)

RECURSIVE OrderBy(_, _)
\* SQL "ORDER BY key": rows with equal keys stay in table order.
OrderBy(rows, key) ==
    IF rows = <<>> THEN <<>>
    ELSE InsertByKey(OrderBy(SubSeq(rows, 1, Len(rows) - 1), key), rows[Len(rows)], key)

(***************************************************************************)
(* The data store adapter.                                                 *)
(***************************************************************************)
\* sqlite3.connect(path): opens the file read-write and creates it, empty,
\* when it is absent.
Connect(store) ==
    IF store.status = "missing" THEN [store EXCEPT !.status = "empty_file"] ELSE store

ConnectAll(d, touched) == [s \in Sources |-> IF s \in touched THEN Connect(d[s]) ELSE d[s]]

\* pd.read_sql_query succeeds only on a database that has the table.
ReadFails(store) == store.status # "ok"

RECURSIVE SortedSetDescending(_)
\* Mutant: the list is sorted descending.
SortedSetDescending(S) ==
    IF S = {} THEN <<>>
    ELSE LET greatest == CHOOSE x \in S : \A y \in S \ {x} : StrLess(y, x)
         IN  <<greatest>> \o SortedSetDescending(S \ {greatest})

RECURSIVE SortedSet(_)
\* sorted(list(cities)) for a set of strings.
SortedSet(S) ==
    IF S = {} THEN <<>>
    ELSE LET least == CHOOSE x \in S : \A y \in S \ {x} : StrLess(x, y)
         IN  <<least>> \o SortedSet(S \ {least})

\* sorted() compares None with a str as soon as both are in the list, and
\* that raises TypeError; a list holding only None has nothing to compare.
SortedRaises(S) == None \in S /\ S # {None}
sorted(S) == IF S = {None} THEN <<None>> ELSE SortedSet(S)

DistinctCities(store) == IF ReadFails(store) THEN {} ELSE {r.city : r \in Range(store.rows)}

get_available_cities(d) ==
    LET cities == UNION {DistinctCities(d[s]) : s \in Sources}
    IN  [raised   |-> cities # {} /\ SortedRaises(cities),
         value    |-> IF cities = {} THEN FallbackCities
                      ELSE IF SortedRaises(cities) THEN <<>> ELSE sorted(cities),
         notices  |-> {<<"warning", "cities", s>> : s \in {t \in Sources : ReadFails(d[t])}},
         db       |-> ConnectAll(d, Sources)]

\* df.sort_values('created_at'): ascending, NaT last; the default quicksort
\* is not stable, so rows with equal keys come out in any order.
SortKey(row) == IF row.created_at = NaT THEN MaxStamp + 2 ELSE row.created_at
sort_values(rows) ==
    LET n == Len(rows)
        perms == {p \in [1..n -> 1..n] : \A i, j \in 1..n : i # j => p[i] # p[j]}
        sortedPerms ==
            {p \in perms : \A i, j \in 1..n :
                i < j => SortKey(rows[p[i]]) <= SortKey(rows[p[j]])}
    IN  {[i \in 1..n |-> rows[p[i]]] : p \in sortedPerms}

RECURSIVE GroupTail(_)
\* groupby('city').tail(1): the last row of every city, in the frame's order;
\* rows whose city is NULL belong to no group.
GroupTail(df) ==
    IF df = <<>> THEN <<>>
    ELSE LET rest == Tail(df)
             isLast == /\ Head(df).city # None
                       /\ \A i \in DOMAIN rest : rest[i].city # Head(df).city
         IN  IF isLast THEN <<Head(df)>> \o GroupTail(rest) ELSE GroupTail(rest)

\* The possible results of one uncached call.
load_current_weather(d) ==
    IF ReadFails(d[DB_CURRENT])
    THEN {[df |-> <<>>, notices |-> {<<"error", "current">>},
           db |-> ConnectAll(d, {DB_CURRENT})]}
    ELSE {[df |-> GroupTail(frame), notices |-> {}, db |-> ConnectAll(d, {DB_CURRENT})] :
            frame \in sort_values(d[DB_CURRENT].rows)}

load_forecast_data(d) ==
    IF ReadFails(d[DB_FORECAST])
    THEN [df |-> <<>>, notices |-> {<<"error", "forecast">>},
          db |-> ConnectAll(d, {DB_FORECAST})]
    ELSE [df |-> OrderBy(d[DB_FORECAST].rows, "datetime"), notices |-> {},
          db |-> ConnectAll(d, {DB_FORECAST})]

load_meteostat_data(d) ==
    IF ReadFails(d[DB_METEOSTAT])
    THEN [df |-> <<>>, notices |-> {<<"error", "historical">>},
          db |-> ConnectAll(d, {DB_METEOSTAT})]
    ELSE [df |-> OrderBy(d[DB_METEOSTAT].rows, "date"), notices |-> {},
          db |-> ConnectAll(d, {DB_METEOSTAT})]

(***************************************************************************)
(* The aggregation engine: pure functions of main() and its helpers.       *)
(***************************************************************************)
RECURSIVE ColumnSum(_, _)
\* Series.sum() of one column.
ColumnSum(df, col) == IF df = <<>> THEN 0 ELSE Head(df)[col] + ColumnSum(Tail(df), col)

\* Mutant: the mean divides by the number of distinct dates, so that rows
\* with a duplicate date are not counted.
ColumnMeanPerDate(df, col) ==
    [num |-> ColumnSum(df, col), den |-> Cardinality({df[i].date : i \in DOMAIN df})]

\* Series.mean(): the sum over the count, kept as an exact fraction.
ColumnMean(df, col) == [num |-> ColumnSum(df, col), den |-> Len(df)]

RECURSIVE ColumnMax(_, _)
ColumnMax(df, col) ==
    IF Len(df) = 1 THEN df[1][col]
    ELSE LET m == ColumnMax(Tail(df), col)
         IN  IF Head(df)[col] > m THEN Head(df)[col] ELSE m

RECURSIVE ColumnMin(_, _)
ColumnMin(df, col) ==
    IF Len(df) = 1 THEN df[1][col]
    ELSE LET m == ColumnMin(Tail(df), col)
         IN  IF Head(df)[col] < m THEN Head(df)[col] ELSE m

\* format(x, ".<d>f") for x = num/den: the number of units of 10^-d shown,
\* rounded half to even as Python rounds an exactly representable float.
Pow10(d) == IF d = 0 THEN 1 ELSE IF d = 1 THEN 10 ELSE 100
Format(num, den, d) ==
    LET n == num * Pow10(d)
        q == n \div den
        r == n - q * den
    IN  IF 2 * r < den THEN q
        ELSE IF 2 * r > den THEN q + 1
        ELSE IF q % 2 = 0 THEN q ELSE q + 1

FormatMean(m, d) == Format(m.num, m.den, d)

\* Mutant: the difference is taken the other way round, first city minus second.
FormatDeltaReversed(a, b, d) == Format(a.num * b.den - b.num * a.den, a.den * b.den, d)

\* format(b - a, ".<d>f") for two means.
FormatDelta(a, b, d) == Format(b.num * a.den - a.num * b.den, a.den * b.den, d)

\* Mutant: the scaled values are clamped to the chart's range.
Clamp(x) == IF x < 0 THEN 0 ELSE IF x > 100 THEN 100 ELSE x
RadarValuesClamped(data) ==
    <<Clamp(data.temp_c * 2), Clamp(data.humidity), Clamp(data.wind_kph * 2),
      Clamp(data.precip_mm * 10), Clamp(data.aqi)>>

\* create_comparison_chart: the scaled vector of one latest reading.
RadarValues(data) ==
    <<data.temp_c * 2, data.humidity, data.wind_kph * 2, data.precip_mm * 10, data.aqi>>

\* create_comparison_chart: .iloc[0] of an empty selection raises IndexError.
create_comparison_chart(c1, c2, df) ==
    LET city1_data == SelectRows(df, c1)
        city2_data == SelectRows(df, c2)
    IN  IF city1_data = <<>> \/ city2_data = <<>>
        THEN [raised |-> TRUE, radar |-> <<>>]
        ELSE [raised |-> FALSE,
              radar  |-> <<RadarValues(city1_data[1]), RadarValues(city2_data[1])>>]

\* Tab 3: the four metric pairs, as shown.
HistMetrics(hist1, hist2) ==
    LET t1 == ColumnMean(hist1, "temperature")
        t2 == ColumnMean(hist2, "temperature")
        p1 == ColumnSum(hist1, "precipitation")
        p2 == ColumnSum(hist2, "precipitation")
        h1 == ColumnMean(hist1, "humidity")
        h2 == ColumnMean(hist2, "humidity")
        w1 == ColumnMean(hist1, "wind_speed")
        w2 == ColumnMean(hist2, "wind_speed")
    IN  [avg_temp1 |-> FormatMean(t1, 1), avg_temp2 |-> FormatMean(t2, 1),
         delta_temp |-> FormatDelta(t1, t2, 1),
         total_precip1 |-> Format(p1, 1, 0), total_precip2 |-> Format(p2, 1, 0),
         delta_precip |-> Format(p2 - p1, 1, 0),
         avg_humidity1 |-> FormatMean(h1, 0), avg_humidity2 |-> FormatMean(h2, 0),
         delta_humidity |-> FormatDelta(h1, h2, 0),
         avg_wind1 |-> FormatMean(w1, 1), avg_wind2 |-> FormatMean(w2, 1),
         delta_wind |-> FormatDelta(w1, w2, 1)]

\* Tab 3: the st.metric calls that carry a delta, in the order of the calls:
\* the label's city, the value shown and the delta shown.
DeltaMetrics(c2, m) ==
    <<[tab |-> "historical", metric |-> "Avg Temp", city |-> c2,
       value |-> m.avg_temp2, delta |-> m.delta_temp],
      [tab |-> "historical", metric |-> "Total Precip", city |-> c2,
       value |-> m.total_precip2, delta |-> m.delta_precip],
      [tab |-> "historical", metric |-> "Avg Humidity", city |-> c2,
       value |-> m.avg_humidity2, delta |-> m.delta_humidity],
      [tab |-> "historical", metric |-> "Avg Wind", city |-> c2,
       value |-> m.avg_wind2, delta |-> m.delta_wind]>>

\* Mutant: the forecast is charted as soon as one of the cities has rows.
forecast_comparison_either(df, c1, c2) ==
    IF SelectRows(df, c1) # <<>> \/ SelectRows(df, c2) # <<>>
    THEN [charts |-> <<SelectRows(df, c1), SelectRows(df, c2)>>, notices |-> {}]
    ELSE [charts |-> <<>>, notices |-> {<<"warning", "no forecast data">>}]

\* Tab 2: both cities' forecast rows are charted, or neither's.
forecast_comparison(df, c1, c2) ==
    LET forecast_city1 == SelectRows(df, c1)
        forecast_city2 == SelectRows(df, c2)
    IN  IF df # <<>>
        THEN IF forecast_city1 # <<>> /\ forecast_city2 # <<>>
             THEN [charts |-> <<forecast_city1, forecast_city2>>, notices |-> {}]
             ELSE [charts |-> <<>>,
                   notices |-> {<<"warning", "insufficient forecast data">>}]
        ELSE [charts |-> <<>>, notices |-> {<<"warning", "no forecast data">>}]

\* Tab 3: both cities' historical metrics and charts are shown, or neither's.
historical_comparison(df, c1, c2) ==
    LET hist_city1 == SelectRows(df, c1)
        hist_city2 == SelectRows(df, c2)
    IN  IF df # <<>>
        THEN IF hist_city1 # <<>> /\ hist_city2 # <<>>
             THEN [metrics |-> <<HistMetrics(hist_city1, hist_city2)>>,
                   deltas |-> DeltaMetrics(c2, HistMetrics(hist_city1, hist_city2)),
                   charts |-> <<hist_city1, hist_city2>>, notices |-> {}]
             ELSE [metrics |-> <<>>, deltas |-> <<>>, charts |-> <<>>,
                   notices |-> {<<"warning", "insufficient historical data">>}]
        ELSE [metrics |-> <<>>, deltas |-> <<>>, charts |-> <<>>,
              notices |-> {<<"warning", "no historical data">>}]

\* Tab 4: one row of the historical statistics summary, as shown (".2f").
SummaryRow(city, city_hist) ==
    [City |-> city,
     avg_temperature |-> FormatMean(ColumnMean(city_hist, "temperature"), 2),
     max_temperature |-> Format(ColumnMax(city_hist, "temperature"), 1, 2),
     min_temperature |-> Format(ColumnMin(city_hist, "temperature"), 1, 2),
     total_precipitation |-> Format(ColumnSum(city_hist, "precipitation"), 1, 2),
     avg_humidity |-> FormatMean(ColumnMean(city_hist, "humidity"), 2),
     avg_wind_speed |-> FormatMean(ColumnMean(city_hist, "wind_speed"), 2)]

RECURSIVE SummaryData(_, _)
\* Tab 4: a row for each of the cities that has historical rows.
SummaryData(cities, df) ==
    IF cities = <<>> THEN <<>>
    ELSE LET city_hist == SelectRows(df, Head(cities))
             rest == SummaryData(Tail(cities), df)
         IN  IF city_hist # <<>> THEN <<SummaryRow(Head(cities), city_hist)>> \o rest
             ELSE rest

\* Mutant: the first city is not excluded.
ExcludeNothing(cities, c1) == cities

RECURSIVE ExcludeCity(_, _)
\* [city for city in CITIES if city != city1]
ExcludeCity(cities, c1) ==
    IF cities = <<>> THEN <<>>
    ELSE IF Head(cities) # c1 THEN <<Head(cities)>> \o ExcludeCity(Tail(cities), c1)
    ELSE ExcludeCity(Tail(cities), c1)

(***************************************************************************)
(* State.                                                                  *)
(***************************************************************************)
VARIABLES
    db,             \* the three stores: status of the file and rows of the table
    cache,          \* st.cache_data: per function, the value and its load time
    now,            \* the clock, in seconds
    writes,         \* writes of the ingestion pipeline so far
    pc,             \* position of the script run
    CITIES, current_df, forecast_df, historical_df,
    city1, available_cities_for_city2, city2,   \* locals of main()
    queried,        \* functions whose body ran (a cache miss) in this run
    raised,         \* the exception that escaped main(), or "none"
    display         \* what the run has put on the page

vars == <<db, cache, now, writes, pc, CITIES, current_df, forecast_df, historical_df,
          city1, available_cities_for_city2, city2, queried, raised, display>>
locals == <<CITIES, current_df, forecast_df, historical_df,
            city1, available_cities_for_city2, city2>>

NoEntry == [valid |-> FALSE, value |-> <<>>, loadedAt |-> 0, notices |-> {}]

EmptyDisplay ==
    [notices |-> {}, tabs |-> {}, card1 |-> <<>>, card2 |-> <<>>, radar |-> <<>>,
     forecast_charts |-> <<>>, hist_metrics |-> <<>>, hist_charts |-> <<>>,
     metric_deltas |-> <<>>,    \* the st.metric calls made with a delta
     table1 |-> <<>>, table2 |-> <<>>, summary |-> <<>>]

InitWith(dbs) ==
    /\ db \in dbs
    /\ cache = [f \in CachedFunctions |-> NoEntry]
    /\ now = 0
    /\ writes = 0
    /\ pc = "get_cities"
    /\ CITIES = <<>> /\ current_df = <<>> /\ forecast_df = <<>> /\ historical_df = <<>>
    /\ city1 = None /\ available_cities_for_city2 = <<>> /\ city2 = None
    /\ queried = {}
    /\ raised = "none"
    /\ display = EmptyDisplay

Init == InitWith(RegistryDbs \cup CurrentDbs \cup HistoryDbs)

(***************************************************************************)
(* st.cache_data(ttl=3600).                                                *)
(***************************************************************************)
\* Mutant: an entry never expires.
never_expired(entry, t) == FALSE

\* An entry is served while less than ttl seconds old.
is_expired(entry, t) == t - entry.loadedAt >= TTL
CacheHit(f) == cache[f].valid /\ ~is_expired(cache[f], now)
Store(f, value, notices) ==
    [cache EXCEPT ![f] = [valid |-> TRUE, value |-> value, loadedAt |-> now,
                          notices |-> notices]]
Notify(ns) == [display EXCEPT !.notices = @ \cup ns]

(***************************************************************************)
(* main(): one script run, a step per call or tab.                         *)
(***************************************************************************)
\* CITIES = get_available_cities(), and the "no cities" stop.
GetAvailableCities ==
    /\ pc = "get_cities"
    /\ IF CacheHit("get_available_cities")
       THEN LET e == cache["get_available_cities"]
            IN  /\ CITIES' = e.value
                /\ display' = Notify(e.notices)
                /\ pc' = IF e.value = <<>> THEN "stopped" ELSE "load_current"
                /\ UNCHANGED <<db, cache, queried, raised>>
       ELSE LET r == get_available_cities(db)
            IN  /\ db' = r.db
                /\ queried' = queried \cup {"get_available_cities"}
                /\ display' = Notify(r.notices)
                /\ IF r.raised
                   THEN /\ pc' = "crashed"
                        /\ raised' = "TypeError"
                        /\ UNCHANGED <<cache, CITIES>>
                   ELSE /\ cache' = Store("get_available_cities", r.value, r.notices)
                        /\ CITIES' = r.value
                        /\ pc' = IF r.value = <<>> THEN "stopped" ELSE "load_current"
                        /\ UNCHANGED raised
    /\ UNCHANGED <<now, writes, current_df, forecast_df, historical_df,
                   city1, available_cities_for_city2, city2>>

\* current_df = load_current_weather()
LoadCurrentWeather ==
    /\ pc = "load_current"
    /\ IF CacheHit("load_current_weather")
       THEN LET e == cache["load_current_weather"]
            IN  /\ current_df' = e.value
                /\ display' = Notify(e.notices)
                /\ UNCHANGED <<db, cache, queried>>
       ELSE \E r \in load_current_weather(db) :
                /\ db' = r.db
                /\ queried' = queried \cup {"load_current_weather"}
                /\ cache' = Store("load_current_weather", r.df, r.notices)
                /\ current_df' = r.df
                /\ display' = Notify(r.notices)
    /\ pc' = "load_forecast"
    /\ UNCHANGED <<now, writes, CITIES, forecast_df, historical_df,
                   city1, available_cities_for_city2, city2, raised>>

\* forecast_df = load_forecast_data()
LoadForecastData ==
    /\ pc = "load_forecast"
    /\ IF CacheHit("load_forecast_data")
       THEN LET e == cache["load_forecast_data"]
            IN  /\ forecast_df' = e.value
                /\ display' = Notify(e.notices)
                /\ UNCHANGED <<db, cache, queried>>
       ELSE LET r == load_forecast_data(db)
            IN  /\ db' = r.db
                /\ queried' = queried \cup {"load_forecast_data"}
                /\ cache' = Store("load_forecast_data", r.df, r.notices)
                /\ forecast_df' = r.df
                /\ display' = Notify(r.notices)
    /\ pc' = "load_meteostat"
    /\ UNCHANGED <<now, writes, CITIES, current_df, historical_df,
                   city1, available_cities_for_city2, city2, raised>>

\* historical_df = load_meteostat_data()
LoadMeteostatData ==
    /\ pc = "load_meteostat"
    /\ IF CacheHit("load_meteostat_data")
       THEN LET e == cache["load_meteostat_data"]
            IN  /\ historical_df' = e.value
                /\ display' = Notify(e.notices)
                /\ UNCHANGED <<db, cache, queried>>
       ELSE LET r == load_meteostat_data(db)
            IN  /\ db' = r.db
                /\ queried' = queried \cup {"load_meteostat_data"}
                /\ cache' = Store("load_meteostat_data", r.df, r.notices)
                /\ historical_df' = r.df
                /\ display' = Notify(r.notices)
    /\ pc' = "select"
    /\ UNCHANGED <<now, writes, CITIES, current_df, forecast_df,
                   city1, available_cities_for_city2, city2, raised>>

\* The two select boxes; the user may pick any option of each.
SelectCities ==
    /\ pc = "select"
    /\ \E c1 \in Range(CITIES) :
        LET candidates == ExcludeCity(CITIES, c1)
        IN  /\ city1' = c1
            /\ available_cities_for_city2' = candidates
            /\ IF candidates = <<>>
               THEN /\ display' = Notify({<<"error", "need at least 2 cities">>})
                    /\ pc' = "stopped"
                    /\ UNCHANGED city2
               ELSE /\ \E c2 \in Range(candidates) : city2' = c2
                    /\ pc' = "tab1"
                    /\ UNCHANGED display
    /\ UNCHANGED <<db, cache, now, writes, CITIES, current_df, forecast_df,
                   historical_df, queried, raised>>

\* Tab 1: the two current-weather cards and the quick-comparison radar.  The
\* st.metric calls of a card carry no delta, and the chart draws the two
\* traces only.
Tab1 ==
    /\ pc = "tab1"
    /\ LET opened == [display EXCEPT !.tabs = @ \cup {"current"}]
       IN  IF current_df # <<>>
           THEN LET city1_data == SelectRows(current_df, city1)
                    city2_data == SelectRows(current_df, city2)
                    cards == [opened EXCEPT
                        !.card1 = IF city1_data # <<>> THEN <<city1_data[1]>> ELSE <<>>,
                        !.card2 = IF city2_data # <<>> THEN <<city2_data[1]>> ELSE <<>>,
                        !.notices = @ \cup
                            {<<"warning", "no current data", c>> :
                                c \in {x \in {city1, city2} :
                                        SelectRows(current_df, x) = <<>>}}]
                    chart == create_comparison_chart(city1, city2, current_df)
                IN  IF chart.raised
                    THEN /\ display' = cards
                         /\ pc' = "crashed"
                         /\ raised' = "IndexError"
                    ELSE /\ display' = [cards EXCEPT !.radar = chart.radar]
                         /\ pc' = "tab2"
                         /\ UNCHANGED raised
           ELSE /\ display' = [opened EXCEPT !.notices =
                                @ \cup {<<"warning", "no current weather data">>}]
                /\ pc' = "tab2"
                /\ UNCHANGED raised
    /\ UNCHANGED <<db, cache, now, writes, locals, queried>>

\* Tab 2: the forecast charts of both cities, or a notice.
Tab2 ==
    /\ pc = "tab2"
    /\ LET section == forecast_comparison(forecast_df, city1, city2)
       IN  display' = [display EXCEPT !.tabs = @ \cup {"forecast"},
                                      !.forecast_charts = section.charts,
                                      !.notices = @ \cup section.notices]
    /\ pc' = "tab3"
    /\ UNCHANGED <<db, cache, now, writes, locals, queried, raised>>

\* Tab 3: the historical metrics and charts of both cities, or a notice.
Tab3 ==
    /\ pc = "tab3"
    /\ LET section == historical_comparison(historical_df, city1, city2)
       IN  display' = [display EXCEPT !.tabs = @ \cup {"historical"},
                                      !.hist_metrics = section.metrics,
                                      !.metric_deltas = @ \o section.deltas,
                                      !.hist_charts = section.charts,
                                      !.notices = @ \cup section.notices]
    /\ pc' = "tab4"
    /\ UNCHANGED <<db, cache, now, writes, locals, queried, raised>>

\* Tab 4: the raw current rows of each city and the statistics summary.
Tab4 ==
    /\ pc = "tab4"
    /\ LET opened == [display EXCEPT !.tabs = @ \cup {"detailed"}]
           summary_data ==
               IF historical_df # <<>>
               THEN SummaryData(<<city1, city2>>, historical_df) ELSE <<>>
       IN  display' = [opened EXCEPT
                !.table1 = SelectRows(current_df, city1),
                !.table2 = SelectRows(current_df, city2),
                !.summary = summary_data]
    /\ pc' = "done"
    /\ UNCHANGED <<db, cache, now, writes, locals, queried, raised>>

Next ==
    \/ GetAvailableCities
    \/ LoadCurrentWeather
    \/ LoadForecastData
    \/ LoadMeteostatData
    \/ SelectCities
    \/ Tab1
    \/ Tab2
    \/ Tab3
    \/ Tab4

Spec == Init /\ [][Next]_vars

(***************************************************************************)
(* A session: the script is rerun on every interaction, while time passes  *)
(* and the ingestion pipeline rewrites the stores.                         *)
(***************************************************************************)
Idle == pc \in {"done", "stopped", "crashed"}

\* A user interaction reruns the script from the top.
Rerun ==
    /\ Idle
    /\ pc' = "get_cities"
    /\ CITIES' = <<>> /\ current_df' = <<>> /\ forecast_df' = <<>>
    /\ historical_df' = <<>>
    /\ city1' = None /\ available_cities_for_city2' = <<>> /\ city2' = None
    /\ queried' = {}
    /\ raised' = "none"
    /\ display' = EmptyDisplay
    /\ UNCHANGED <<db, cache, now, writes>>

\* Time passes, during a run or between runs.
Tick ==
    /\ now < MaxTicks * ClockStep
    /\ now' = now + ClockStep
    /\ UNCHANGED <<db, cache, writes, pc, locals, queried, raised, display>>

MissingStore == [status |-> "missing", rows |-> <<>>]
SessionCurrent ==
    {MissingStore, OkStore(<<CurrentRow("London", 1, DefaultReading)>>),
     OkStore(<<CurrentRow("Nairobi", 1, DefaultReading)>>)}
SessionForecast ==
    {MissingStore, BothCitiesForecast, OkStore(<<ForecastRow("Nairobi", 1)>>)}
SessionMeteostat ==
    {MissingStore, OkStore(<<HistRow(1, "London", DefaultHist)>>),
     OkStore(<<HistRow(1, None, DefaultHist)>>)}
WriteValues(s) ==
    CASE s = DB_CURRENT -> SessionCurrent
      [] s = DB_FORECAST -> SessionForecast
      [] s = DB_METEOSTAT -> SessionMeteostat

\* The ingestion pipeline replaces, empties or removes a store, during a run
\* or between runs.
ExternalWrite ==
    /\ writes < MaxWrites
    /\ \E s \in Sources : \E v \in WriteValues(s) :
        /\ v # db[s]
        /\ db' = [db EXCEPT ![s] = v]
    /\ writes' = writes + 1
    /\ UNCHANGED <<cache, now, pc, locals, queried, raised, display>>

SessionDbs ==
    {MakeDb(c, BothCitiesForecast, m) : c \in SessionCurrent, m \in SessionMeteostat}

InitSession == InitWith(SessionDbs)

NextSession == Next \/ Rerun \/ Tick \/ ExternalWrite

SpecSession == InitSession /\ [][NextSession]_vars

(***************************************************************************)
(* Properties.                                                             *)
(***************************************************************************)
HasRow(df, city) == \E i \in DOMAIN df : df[i].city = city
AfterSelection ==
    \/ pc \in {"tab1", "tab2", "tab3", "tab4", "done"}
    \/ pc = "crashed" /\ raised = "IndexError"
FrameOf(s) ==
    CASE s = DB_CURRENT -> current_df
      [] s = DB_FORECAST -> forecast_df
      [] s = DB_METEOSTAT -> historical_df

\* C1: once the current-weather tab has been rendered from a non-empty
\* snapshot in which a selected city has no row, that city's card is empty,
\* no radar is drawn, no exception has escaped, and the run is in (or past)
\* the forecast tab.
C1_MissingCityRadarSkipped ==
    ( /\ "current" \in display.tabs
      /\ current_df # <<>>
      /\ ~HasRow(current_df, city1) \/ ~HasRow(current_df, city2) )
    => /\ raised = "none"
       /\ display.radar = <<>>
       /\ (~HasRow(current_df, city1) => display.card1 = <<>>)
       /\ (~HasRow(current_df, city2) => display.card2 = <<>>)
       /\ pc \in {"tab2", "tab3", "tab4", "done"}

\* C2: no exception escapes get_available_cities or the three loaders,
\* whatever the state of the stores (NULL cities and NULL created_at
\* included); and once the three loaders have returned, a store that failed
\* has given an empty frame while every readable store with rows has given a
\* non-empty one.
C2_AdapterNeverRaises ==
    /\ raised # "TypeError"
    /\ pc \in {"select", "stopped"} \cup {"tab1", "tab2", "tab3", "tab4", "done"} =>
        \A s \in Sources :
            /\ db[s].status # "ok" => FrameOf(s) = <<>>
            /\ (db[s].status = "ok" /\ \E i \in DOMAIN db[s].rows :
                    db[s].rows[i].city # None) => FrameOf(s) # <<>>

SelectionActed == AfterSelection \/ pc = "stopped"

\* C3: once the select boxes have been evaluated, the candidates for the
\* second city are the available cities without city1; with two or more
\* available cities the candidates are not empty and city2 is one of them,
\* different from city1; with fewer than two the run has reported
\* insufficient cities and stopped, with no exception and no tab rendered.
C3_SecondCityCandidates ==
    /\ SelectionActed =>
        /\ city1 \in Range(CITIES)
        /\ Range(available_cities_for_city2) = Range(CITIES) \ {city1}
        /\ Len(CITIES) >= 2 =>
            /\ available_cities_for_city2 # <<>>
            /\ AfterSelection
            /\ city2 \in Range(available_cities_for_city2)
            /\ city2 # city1
        /\ Len(CITIES) < 2 =>
            /\ pc = "stopped"
            /\ raised = "none"
            /\ <<"error", "need at least 2 cities">> \in display.notices
            /\ [display EXCEPT !.notices = {}] = EmptyDisplay
    /\ display.tabs # {} => city1 # city2 /\ Len(CITIES) >= 2

C3_Witness ==
    /\ pc = "tab1"
    /\ Len(CITIES) = 4
    /\ Len(available_cities_for_city2) = 3
    /\ city1 = "Nairobi" /\ city2 = "London"

\* The distinct city values of the sources that can be read.
ReadableCities ==
    UNION {IF db[s].status = "ok"
           THEN {db[s].rows[i].city : i \in DOMAIN db[s].rows} ELSE {} : s \in Sources}
CitiesReturned == "get_available_cities" \in queried /\ raised # "TypeError"
IsAscending(cities) ==
    \A i \in 1..(Len(cities) - 1) : CodePointRank[cities[i]] < CodePointRank[cities[i + 1]]

\* C4 as claimed: every list the registry returns is sorted ascending without
\* duplicates; it is the union of the readable sources' cities, or the
\* fallback list when that union is empty.
C4_AlwaysSorted ==
    CitiesReturned =>
        /\ IsAscending(CITIES)
        /\ ReadableCities # {} => Range(CITIES) = ReadableCities
        /\ ReadableCities = {} => CITIES = FallbackCities

\* C4 as amended: a non-empty union is returned sorted ascending without
\* duplicates; an empty union gives the fallback list in its literal order,
\* Nairobi, Sydney, New York, London, which is not sorted.
C4_SortedUnionOrFallback ==
    CitiesReturned =>
        /\ ReadableCities # {} => IsAscending(CITIES) /\ Range(CITIES) = ReadableCities
        /\ ReadableCities = {} => CITIES = <<"Nairobi", "Sydney", "New York", "London">>

C4_Witness ==
    /\ CitiesReturned
    /\ CITIES = <<"London", "Nairobi">>
    /\ db[DB_CURRENT].status = "unreadable"
    /\ db[DB_FORECAST].rows # <<>> /\ db[DB_METEOSTAT].rows # <<>>

\* C5: after an uncached load of a readable current table, every city with
\* rows in the table has exactly one row in the frame, one of its own rows,
\* whose created_at is the greatest of the city's timestamps; a row without
\* created_at is never returned while the city has a row with a timestamp.
C5_LatestReadingPerCity ==
    ("load_current_weather" \in queried /\ db[DB_CURRENT].status = "ok") =>
        \A c \in CityNames :
            LET rows == db[DB_CURRENT].rows
                own == {i \in DOMAIN rows : rows[i].city = c}
                got == {j \in DOMAIN current_df : current_df[j].city = c}
            IN  own # {} =>
                    /\ Cardinality(got) = 1
                    /\ \A j \in got :
                        /\ \E i \in own : rows[i] = current_df[j]
                        /\ \A i \in own : rows[i].created_at # NaT =>
                            /\ current_df[j].created_at # NaT
                            /\ current_df[j].created_at >= rows[i].created_at

RECURSIVE SumOver(_, _, _)
\* The sum of one column of a frame over a set of row numbers.
SumOver(df, I, col) ==
    IF I = {} THEN 0
    ELSE LET i == CHOOSE x \in I : TRUE
         IN  df[i][col] + SumOver(df, I \ {i}, col)
Abs(x) == IF x < 0 THEN -x ELSE x
\* v units of 1/scale is num/den to the shown precision.
Shows(v, num, den, scale) == 2 * Abs(scale * num - v * den) <= den
HistRowsOf(c) == {i \in DOMAIN historical_df : historical_df[i].city = c}
IsMaxOver(v, I, col) ==
    /\ \E i \in I : historical_df[i][col] = v
    /\ \A i \in I : historical_df[i][col] <= v
IsMinOver(v, I, col) ==
    /\ \E i \in I : historical_df[i][col] = v
    /\ \A i \in I : historical_df[i][col] >= v

\* C6: every shown historical figure of a selected city is, to the shown
\* precision, the mean of temperature, humidity and wind speed, the sum of
\* precipitation and the maximum and minimum of temperature over exactly
\* the historical rows of that city; temperatures 10, 20, 30 and 15, 25, 35
\* give the means 20.0 and 25.0.
C6_HistoricalSummary ==
    /\ \A k \in DOMAIN display.summary :
        LET row == display.summary[k]
            I == HistRowsOf(row.City)
            n == Cardinality(I)
        IN  /\ row.City \in {city1, city2}
            /\ n >= 1
            /\ Shows(row.avg_temperature, SumOver(historical_df, I, "temperature"), n, 100)
            /\ Shows(row.avg_humidity, SumOver(historical_df, I, "humidity"), n, 100)
            /\ Shows(row.avg_wind_speed, SumOver(historical_df, I, "wind_speed"), n, 100)
            /\ row.total_precipitation = 100 * SumOver(historical_df, I, "precipitation")
            /\ \E v \in -50..50 : row.max_temperature = 100 * v /\ IsMaxOver(v, I, "temperature")
            /\ \E v \in -50..50 : row.min_temperature = 100 * v /\ IsMinOver(v, I, "temperature")
    /\ display.hist_metrics # <<>> =>
        LET m == display.hist_metrics[1]
            I1 == HistRowsOf(city1)
            I2 == HistRowsOf(city2)
            n1 == Cardinality(I1)
            n2 == Cardinality(I2)
        IN  /\ n1 >= 1 /\ n2 >= 1
            /\ Shows(m.avg_temp1, SumOver(historical_df, I1, "temperature"), n1, 10)
            /\ Shows(m.avg_temp2, SumOver(historical_df, I2, "temperature"), n2, 10)
            /\ m.total_precip1 = SumOver(historical_df, I1, "precipitation")
            /\ m.total_precip2 = SumOver(historical_df, I2, "precipitation")
            /\ Shows(m.avg_humidity1, SumOver(historical_df, I1, "humidity"), n1, 1)
            /\ Shows(m.avg_humidity2, SumOver(historical_df, I2, "humidity"), n2, 1)
            /\ Shows(m.avg_wind1, SumOver(historical_df, I1, "wind_speed"), n1, 10)
            /\ Shows(m.avg_wind2, SumOver(historical_df, I2, "wind_speed"), n2, 10)
            /\ (db[DB_METEOSTAT] = ScenarioHist /\ city1 = "London" /\ city2 = "Nairobi")
                => m.avg_temp1 = 200 /\ m.avg_temp2 = 250

C6_Witness ==
    /\ pc = "done"
    /\ db[DB_METEOSTAT] = ScenarioHist
    /\ city1 = "London" /\ city2 = "Nairobi"
    /\ display.hist_metrics # <<>>
    /\ display.hist_metrics[1].avg_temp1 = 200
    /\ display.hist_metrics[1].avg_temp2 = 250
    /\ Len(display.summary) = 2
    /\ display.summary[2].max_temperature = 3500

ForecastNotices ==
    {<<"warning", "insufficient forecast data">>, <<"warning", "no forecast data">>}
HistoricalNotices ==
    {<<"warning", "insufficient historical data">>, <<"warning", "no historical data">>}

\* C7 as claimed: when a selected city has no forecast rows nothing of the
\* forecast is shown for either city, and when a selected city has no
\* historical rows nothing historical is shown for either city anywhere in
\* the run, the detailed tab's summary included; a notice is shown instead.
C7_BothOrNothingEverywhere ==
    /\ ("forecast" \in display.tabs
            /\ (~HasRow(forecast_df, city1) \/ ~HasRow(forecast_df, city2)))
        => display.forecast_charts = <<>> /\ display.notices \cap ForecastNotices # {}
    /\ (pc = "done" /\ (~HasRow(historical_df, city1) \/ ~HasRow(historical_df, city2)))
        => /\ display.hist_metrics = <<>> /\ display.hist_charts = <<>>
           /\ display.summary = <<>>
           /\ display.notices \cap HistoricalNotices # {}

\* C7 as amended: the forecast tab and the historical tab show their
\* comparison exactly when both selected cities have rows in that dataset,
\* and a notice otherwise; the summary table of the detailed tab holds one
\* row for each selected city that has historical rows, whether or not the
\* other city has any.
C7_BothOrNothingInTabs ==
    /\ "forecast" \in display.tabs =>
        /\ display.forecast_charts # <<>>
            <=> (HasRow(forecast_df, city1) /\ HasRow(forecast_df, city2))
        /\ display.forecast_charts = <<>> => display.notices \cap ForecastNotices # {}
        /\ display.forecast_charts # <<>> =>
            /\ \A i \in DOMAIN display.forecast_charts[1] :
                    display.forecast_charts[1][i].city = city1
            /\ \A i \in DOMAIN display.forecast_charts[2] :
                    display.forecast_charts[2][i].city = city2
    /\ "historical" \in display.tabs =>
        /\ display.hist_metrics # <<>>
            <=> (HasRow(historical_df, city1) /\ HasRow(historical_df, city2))
        /\ display.hist_charts # <<>> <=> display.hist_metrics # <<>>
        /\ display.hist_metrics = <<>> => display.notices \cap HistoricalNotices # {}
    /\ pc = "done" =>
        /\ {display.summary[k].City : k \in DOMAIN display.summary}
            = {c \in {city1, city2} : HasRow(historical_df, c)}
        /\ Len(display.summary) = Cardinality({c \in {city1, city2} : HasRow(historical_df, c)})

C7_Witness ==
    /\ pc = "done"
    /\ HasRow(historical_df, city1) /\ ~HasRow(historical_df, city2)
    /\ HasRow(forecast_df, city1) /\ ~HasRow(forecast_df, city2)
    /\ display.forecast_charts = <<>> /\ display.hist_metrics = <<>>
    /\ Len(display.summary) = 1

PcOf(f) ==
    CASE f = "get_available_cities" -> "get_cities"
      [] f = "load_current_weather" -> "load_current"
      [] f = "load_forecast_data" -> "load_forecast"
      [] f = "load_meteostat_data" -> "load_meteostat"
ResultOf(f) ==
    CASE f = "get_available_cities" -> CITIES
      [] f = "load_current_weather" -> current_df
      [] f = "load_forecast_data" -> forecast_df
      [] f = "load_meteostat_data" -> historical_df
\* The value v is what function f makes of the stores d.
Reflects(f, d, v) ==
    CASE f = "get_available_cities" ->
            LET cs == UNION {IF d[s].status = "ok"
                             THEN {d[s].rows[i].city : i \in DOMAIN d[s].rows}
                             ELSE {} : s \in Sources}
            IN  Range(v) = IF cs = {} THEN Range(FallbackCities) ELSE cs
      [] f = "load_current_weather" ->
            IF d[DB_CURRENT].status = "ok"
            THEN /\ Range(v) \subseteq Range(d[DB_CURRENT].rows)
                 /\ {v[i].city : i \in DOMAIN v}
                        = {r.city : r \in Range(d[DB_CURRENT].rows)} \ {None}
            ELSE v = <<>>
      [] f = "load_forecast_data" ->
            IF d[DB_FORECAST].status = "ok"
            THEN Range(v) = Range(d[DB_FORECAST].rows) /\ Len(v) = Len(d[DB_FORECAST].rows)
            ELSE v = <<>>
      [] f = "load_meteostat_data" ->
            IF d[DB_METEOSTAT].status = "ok"
            THEN Range(v) = Range(d[DB_METEOSTAT].rows)
                 /\ Len(v) = Len(d[DB_METEOSTAT].rows)
            ELSE v = <<>>

\* C8: a call of a cached function less than one hour after its value was
\* loaded returns that value without querying the store, whatever the store
\* holds by then; a call more than one hour after the load (or with nothing
\* loaded) queries the store, and the value it returns is made of the
\* store's contents at that moment; the cached value changes only then.
C8_CacheWithinTTL ==
    [][\A f \in CachedFunctions :
        /\ (pc = PcOf(f) /\ pc' # pc) =>
            /\ (cache[f].valid /\ now - cache[f].loadedAt < 3600) =>
                /\ ResultOf(f)' = cache[f].value
                /\ cache'[f] = cache[f]
                /\ f \notin queried'
                /\ db' = db
            /\ (~cache[f].valid \/ now - cache[f].loadedAt > 3600) =>
                /\ f \in queried'
                /\ pc' # "crashed" =>
                    /\ Reflects(f, db, ResultOf(f)')
                    /\ cache'[f].valid
                    /\ cache'[f].value = ResultOf(f)'
                    /\ cache'[f].loadedAt = now
        /\ cache'[f] # cache[f] => pc = PcOf(f) /\ f \in queried'
      ]_vars

\* The second load of the current table within the hour, after the store
\* was removed: the cached snapshot is returned and the store is not queried.
C8_Witness ==
    /\ pc = "load_forecast"
    /\ "load_current_weather" \notin queried
    /\ current_df # <<>>
    /\ db[DB_CURRENT].status = "missing"
    /\ now - cache["load_current_weather"].loadedAt = ClockStep

\* C9: no step of a script run changes a store: each store's existence and
\* contents stay what they were, also when the store was missing.
C9_StoresUntouched == [][db' = db]_vars

\* C10: each vector of the radar is (temp_c*2, humidity, wind_kph*2,
\* precip_mm*10, aqi) of the row of that city in the latest readings, in
\* this order and unclamped; the reading (20, 50, 10, 2, 50) gives
\* (40, 50, 20, 20, 50).
C10_RadarScaling ==
    display.radar # <<>> =>
        /\ Len(display.radar) = 2
        /\ \A k \in {1, 2} :
            \E i \in DOMAIN current_df :
                LET r == current_df[i]
                IN  /\ r.city = IF k = 1 THEN city1 ELSE city2
                    /\ display.radar[k] =
                        <<2 * r.temp_c, r.humidity, 2 * r.wind_kph, 10 * r.precip_mm, r.aqi>>
                    /\ ( r.temp_c = 20 /\ r.humidity = 50 /\ r.wind_kph = 10
                            /\ r.precip_mm = 2 /\ r.aqi = 50 )
                        => display.radar[k] = <<40, 50, 20, 20, 50>>

C10_Witness ==
    /\ display.radar # <<>>
    /\ display.radar[1] = <<40, 50, 20, 20, 50>>
    /\ display.radar[2] = <<-10, 90, 110, 120, 150>>

RadarCategories == {"Temperature", "Humidity", "Wind Speed", "Precipitation", "AQI"}
HistDeltaLabels == {"Avg Temp", "Total Precip", "Avg Humidity", "Avg Wind"}
ColumnOf(metric) ==
    CASE metric = "Avg Temp" -> "temperature"
      [] metric = "Total Precip" -> "precipitation"
      [] metric = "Avg Humidity" -> "humidity"
      [] metric = "Avg Wind" -> "wind_speed"
\* Units of the shown precision per unit of the metric (".1f" or ".0f").
ScaleOf(metric) == IF metric \in {"Avg Temp", "Avg Wind"} THEN 10 ELSE 1
Sign(x) == IF x > 0 THEN 1 ELSE IF x < 0 THEN -1 ELSE 0

\* The delta display e of the historical tab shows the second city's
\* aggregate and, as delta, the second city's aggregate minus the first
\* city's, both to the shown precision and the delta never of the other sign.
HistDeltaRight(e) ==
    LET col == ColumnOf(e.metric)
        I1 == HistRowsOf(city1)
        I2 == HistRowsOf(city2)
        n1 == IF e.metric = "Total Precip" THEN 1 ELSE Cardinality(I1)
        n2 == IF e.metric = "Total Precip" THEN 1 ELSE Cardinality(I2)
        s1 == SumOver(historical_df, I1, col)
        s2 == SumOver(historical_df, I2, col)
        diff == s2 * n1 - s1 * n2       \* (s2/n2 - s1/n1) * n1 * n2
    IN  /\ e.tab = "historical"
        /\ e.city = city2
        /\ I1 # {} /\ I2 # {}
        /\ Shows(e.value, s2, n2, ScaleOf(e.metric))
        /\ Shows(e.delta, diff, n1 * n2, ScaleOf(e.metric))
        /\ Sign(e.delta) \in {0, Sign(diff)}

\* The deltas of the historical tab: one for each of the four metrics when
\* the comparison is shown, each of them right; 20.0 and 25.0 give +5.0.
HistDeltasRight ==
    /\ \A k \in DOMAIN display.metric_deltas :
        display.metric_deltas[k].tab = "historical" => HistDeltaRight(display.metric_deltas[k])
    /\ display.hist_metrics # <<>> =>
        /\ \A metric \in HistDeltaLabels :
            \E k \in DOMAIN display.metric_deltas :
                /\ display.metric_deltas[k].tab = "historical"
                /\ display.metric_deltas[k].metric = metric
        /\ (db[DB_METEOSTAT] = ScenarioHist /\ city1 = "London" /\ city2 = "Nairobi")
            => \E k \in DOMAIN display.metric_deltas :
                /\ display.metric_deltas[k].metric = "Avg Temp"
                /\ display.metric_deltas[k].value = 250
                /\ display.metric_deltas[k].delta = 50

\* C11 as claimed: the historical tab and the radar quick comparison both
\* report each of their metrics as the second city's value together with a
\* signed delta, the second city's value minus the first city's; means 20.0
\* and 25.0 give a delta of +5.0.
C11_DeltaInEveryDisplay ==
    /\ HistDeltasRight
    /\ display.radar # <<>> =>
        \A metric \in RadarCategories :
            \E k \in DOMAIN display.metric_deltas :
                /\ display.metric_deltas[k].tab = "current"
                /\ display.metric_deltas[k].metric = metric
                /\ display.metric_deltas[k].city = city2

\* C11 as amended: the deltas of a run are those of the historical tab and
\* no others.  When the historical comparison is shown, average temperature,
\* total precipitation, average humidity and average wind are each reported
\* as the second city's value with a delta that is, to the shown precision,
\* the second city's aggregate minus the first city's, never of the opposite
\* sign; means 20.0 and 25.0 give +5.0.  When it is not shown there is no
\* delta.  The radar quick comparison shows the two scaled vectors only.
C11_DeltaInHistoricalTab ==
    /\ HistDeltasRight
    /\ \A k \in DOMAIN display.metric_deltas : display.metric_deltas[k].tab = "historical"
    /\ Len(display.metric_deltas) = IF display.hist_metrics # <<>> THEN 4 ELSE 0
    /\ display.radar # <<>> => Len(display.radar) = 2

\* The end-to-end scenario after the whole run: the radar was drawn, and the
\* historical tab shows a positive and a negative delta.
C11_Witness ==
    /\ pc = "done"
    /\ db[DB_METEOSTAT] = ScenarioHist
    /\ city1 = "London" /\ city2 = "Nairobi"
    /\ display.radar # <<>>
    /\ Len(display.metric_deltas) = 4
    /\ display.metric_deltas[1].value = 250 /\ display.metric_deltas[1].delta = 50
    /\ display.metric_deltas[2].value = 4 /\ display.metric_deltas[2].delta = -2

====
